---- MODULE Spec2Model ----
(***************************************************************************)
(* promptea: a schema of typed fields is walked field by field; every      *)
(* field asks the operator, validates the answer and yields one            *)
(* serde_json::Value; the values are assembled into populated_fields.      *)
(*                                                                         *)
(* The traversal (Schema::prompt and everything it calls) is modelled as   *)
(* an explicit call stack.  One action is one piece of code between two    *)
(* points where control leaves the function: a call of a nested prompt, an *)
(* interaction with the operator, or a return.  The terminal widgets of    *)
(* dialoguer are the environment: an Input hands back any text the         *)
(* validation closure accepts, a Select an index, a MultiSelect a list of  *)
(* indices, a Confirm a boolean, and each of them may fail with an         *)
(* io::Error.  Titles, descriptions, colours and `quiet` only print.       *)
(***************************************************************************)
EXTENDS Integers, Sequences, FiniteSets, TLC

VARIABLES schema, stack, populated_fields, ret, status, asked, typed, last_ask,
          report

vars == <<schema, stack, populated_fields, ret, status, asked, typed, last_ask,
          report>>

(***************************************************************************)
(* Bounds of the model.                                                    *)
(***************************************************************************)
\* longest answer text the operator types
MaxLen == 3
\* largest min_items / max_items of an array field
MaxItems == 2

(***************************************************************************)
(* Answer texts: sequences of characters.                                  *)
(***************************************************************************)
Alphabet == {"a", "1", "9", "-"}

Texts == UNION {[1..n -> Alphabet] : n \in 0..MaxLen}

(***************************************************************************)
(* serde_json::Value, tagged.  A string is its sequence of characters, an  *)
(* object a function from its keys.                                        *)
(***************************************************************************)
Null == [t |-> "null", v |-> <<>>]
Str(s) == [t |-> "string", v |-> s]
Num(n) == [t |-> "number", v |-> n]
Array(vs) == [t |-> "array", v |-> vs]
Object(m) == [t |-> "object", v |-> m]

\* Option<_>, and the empty return slot of the model's call stack
None == [t |-> "None", v |-> <<>>]
Some(x) == [t |-> "Some", v |-> x]
NoRet == [t |-> "noret", v |-> <<>>]

\* PartialEq of serde_json::Value
ValueEq(a, b) == a.t = b.t /\ a.v = b.v

\* Option::unwrap_or
UnwrapOr(opt, dflt) == IF opt.t = "Some" THEN opt.v ELSE dflt

\* BTreeMap / serde_json::Map / IndexMap as functions from keys
EmptyMap == [k \in {} |-> Null]

\* Map::insert: an existing entry is replaced
MapInsert(m, key, value) ==
    [k \in (DOMAIN m) \cup {key} |-> IF k = key THEN value ELSE m[k]]

(***************************************************************************)
(* FromStr for the integer types (u8 and i8 stand for the ten              *)
(* instantiations of parse_primitives!).                                   *)
(***************************************************************************)
U8Max == 255
I8Min == -128
I8Max == 127

TypeMin(ty) == IF ty = "u8" THEN 0 ELSE I8Min
TypeMax(ty) == IF ty = "u8" THEN U8Max ELSE I8Max

Digits == <<"0", "1", "2", "3", "4", "5", "6", "7", "8", "9">>

IsDigit(c) == \E d \in 1..Len(Digits) : Digits[d] = c
DigitVal(c) == (CHOOSE d \in 1..Len(Digits) : Digits[d] = c) - 1

RECURSIVE DigitsVal(_)
DigitsVal(s) ==
    IF Len(s) = 0 THEN 0
    ELSE 10 * DigitsVal(SubSeq(s, 1, Len(s) - 1)) + DigitVal(s[Len(s)])

AllDigits(s) == Len(s) > 0 /\ \A i \in 1..Len(s) : IsDigit(s[i])

\* the value str::parse::<ty> reads, when the text has the shape of a number
ParseVal(ty, text) ==
    IF Len(text) > 0 /\ text[1] = "-" THEN 0 - DigitsVal(Tail(text))
    ELSE DigitsVal(text)

\* str::parse::<ty> is Ok: digits, a sign only for a signed type, no overflow
ParseOk(ty, text) ==
    /\ \/ AllDigits(text)
       \/ ty = "i8" /\ Len(text) > 1 /\ text[1] = "-" /\ AllDigits(Tail(text))
    /\ ParseVal(ty, text) >= TypeMin(ty)
    /\ ParseVal(ty, text) <= TypeMax(ty)

(***************************************************************************)
(* The regex crate, for the patterns the schemas of the model use.         *)
(***************************************************************************)
NoRegex == "None"
Patterns == {"^a+$", "9", "", "["}

\* Regex::new(re) is Ok
RegexCompiles(re) == re # "["

\* Regex::is_match
IsMatch(re, s) ==
    CASE re = "^a+$" -> Len(s) > 0 /\ \A i \in 1..Len(s) : s[i] = "a"
      [] re = "9" -> \E i \in 1..Len(s) : s[i] = "9"
      [] OTHER -> TRUE

(***************************************************************************)
(* Validators.                                                             *)
(***************************************************************************)
\* StringValidate, had the check of min_length been left out
StringValidateNoMin(c, input) ==
    /\ ~(Len(input) > c.max_length)
    /\ c.regex # NoRegex => (RegexCompiles(c.regex) /\ IsMatch(c.regex, input))

\* Validator<String> for StringConstraints: TRUE is Ok(())
StringValidate(c, input) ==
    /\ ~(Len(input) < c.min_length)
    /\ ~(Len(input) > c.max_length)
    /\ c.regex # NoRegex => (RegexCompiles(c.regex) /\ IsMatch(c.regex, input))

\* IntValidate, had the two bounds been exclusive
IntValidateExclusive(c, value) ==
    /\ ~(value <= c.min)
    /\ ~(value >= c.max)

\* Validator<T> for IntConstraints<T>: TRUE is Ok(())
IntValidate(c, value) ==
    /\ ~(value < c.min)
    /\ ~(value > c.max)

\* Result<(), String>; an error message is its text, the value it quotes, the
\* number it prints between the parentheses and the pattern it quotes
Ok == [t |-> "Ok", v |-> <<>>]
Err(msg) == [t |-> "Err", v |-> msg]

Message(text, value, number, pattern) ==
    [text |-> text, value |-> value, number |-> number, pattern |-> pattern]

\* Validator<String> for StringConstraints, with the message of each Err
StringValidateResult(c, input) ==
    IF Len(input) < c.min_length
    THEN Err(Message("does not meet the minimum required length",
                     Some(input), Some(c.max_length), None))
    ELSE IF Len(input) > c.max_length
    THEN Err(Message("exceeds the maximum allowed length",
                     Some(input), Some(c.max_length), None))
    ELSE IF c.regex # NoRegex /\ ~RegexCompiles(c.regex)
    THEN Err(Message("Failed to build regex validator", None, None, None))
    ELSE IF c.regex # NoRegex /\ ~IsMatch(c.regex, input)
    THEN Err(Message("does not match regex pattern",
                     Some(input), None, Some(c.regex)))
    ELSE Ok

(***************************************************************************)
(* The validation closures handed to dialoguer's Input, and the mapping of *)
(* the accepted text.  A closure's verdict records which checks it ran.    *)
(***************************************************************************)
\* StringClosure, had the empty answer of a skippable field been validated
StringClosureAlwaysValidates(can_skip, c, input) ==
    [ok |-> StringValidate(c, input), parsed |-> FALSE, validated |-> TRUE]

\* the closure of <String as PromptValue>::prompt
StringClosure(can_skip, c, input) ==
    IF can_skip /\ Len(input) = 0
    THEN [ok |-> TRUE, parsed |-> FALSE, validated |-> FALSE]
    ELSE [ok |-> StringValidate(c, input), parsed |-> FALSE, validated |-> TRUE]

\* StringResult, had the empty answer been a skip whatever can_skip is
StringResultEmptyIsNone(can_skip, input) ==
    IF Len(input) = 0 THEN None ELSE Some(Str(input))

\* .map(|input| ...) of <String as PromptValue>::prompt
StringResult(can_skip, input) ==
    IF can_skip /\ Len(input) = 0 THEN None ELSE Some(Str(input))

\* NumClosure, had an answer that fails to parse been let through
NumClosureNoParseCheck(ty, can_skip, c, input) ==
    IF can_skip /\ Len(input) = 0
    THEN [ok |-> TRUE, parsed |-> FALSE, validated |-> FALSE]
    ELSE IF ~ParseOk(ty, input)
    THEN [ok |-> TRUE, parsed |-> TRUE, validated |-> FALSE]
    ELSE [ok |-> IntValidate(c, ParseVal(ty, input)), parsed |-> TRUE, validated |-> TRUE]

\* the closure of parse_primitives!'s prompt
NumClosure(ty, can_skip, c, input) ==
    IF can_skip /\ Len(input) = 0
    THEN [ok |-> TRUE, parsed |-> FALSE, validated |-> FALSE]
    ELSE IF ~ParseOk(ty, input)
    THEN [ok |-> FALSE, parsed |-> TRUE, validated |-> FALSE]
    ELSE [ok |-> IntValidate(c, ParseVal(ty, input)), parsed |-> TRUE, validated |-> TRUE]

\* a panic of unwrap()
Panic == [t |-> "panic", v |-> <<>>]

\* maybe_parse_value
maybe_parse_value(ty, can_skip, input) ==
    IF can_skip /\ Len(input) = 0 THEN None
    ELSE IF ParseOk(ty, input) THEN Some(Num(ParseVal(ty, input)))
    ELSE Panic

\* serde_json::Value::from(Option<T>)
ValueFromOption(opt) == IF opt.t = "Some" THEN opt.v ELSE Null

(***************************************************************************)
(* Field definitions (Field with its TypeConstraints).                     *)
(***************************************************************************)
StringConstraints(min_length, max_length, regex) ==
    [min_length |-> min_length, max_length |-> max_length, regex |-> regex]

IntConstraints(min, max) == [min |-> min, max |-> max]

CollectionConstraints(min_items, max_items) ==
    [min_items |-> min_items, max_items |-> max_items]

IfCondition(picked, fields) == [picked |-> picked, fields |-> fields]

Entry(key, field) == [key |-> key, field |-> field]

StringField(can_skip, c) ==
    [type |-> "string", can_skip |-> can_skip, constraints |-> c]

IntField(ty, can_skip, c) ==
    [type |-> ty, can_skip |-> can_skip, constraints |-> c]

SelectField(can_skip, select_many, items, insert_at_root, if_conditions) ==
    [type |-> "select", can_skip |-> can_skip,
     constraints |-> [select_many |-> select_many, items |-> items],
     conditions |-> [insert_at_root |-> insert_at_root,
                     if_conditions |-> if_conditions]]

ObjectField(fields) ==
    [type |-> "object", can_skip |-> FALSE, fields |-> fields]

ArrayField(ty, can_skip, c, inner) ==
    [type |-> "array", item |-> ty, can_skip |-> can_skip,
     constraints |-> c, inner_constraints |-> inner]

\* the keys of an IndexMap<String, Field>
Keys(fields) == {fields[i].key : i \in 1..Len(fields)}

(***************************************************************************)
(* The schemas the traversal is run on.                                    *)
(***************************************************************************)
ItemA == Str(<<"a">>)
Item9 == Str(<<"9">>)
Items == <<ItemA, Item9>>

\* a select without conditions
Leaf == SelectField(FALSE, FALSE, Items, FALSE, <<>>)

\* a select whose condition inserts at the root
CondSel ==
    SelectField(FALSE, FALSE, Items, TRUE,
                <<IfCondition(ItemA, <<Entry("x", Leaf)>>)>>)

IfVariants ==
    { <<IfCondition(ItemA, <<Entry("x", Leaf)>>)>>,
      <<IfCondition(ItemA, <<Entry("x", Leaf)>>),
        IfCondition(ItemA, <<Entry("y", Leaf)>>)>>,
      <<IfCondition(Null, <<Entry("x", Leaf)>>)>>,
      <<IfCondition(ItemA, <<Entry("x", Leaf), Entry("y", Leaf)>>),
        IfCondition(Item9, <<Entry("sel", Leaf)>>)>>,
      <<IfCondition(ItemA, <<Entry("x", Leaf), Entry("y", CondSel)>>)>> }

Tails == {<<>>, <<Entry("x", Leaf)>>}

SelectSchemas ==
    { (IF nested THEN <<Entry("o", ObjectField(<<Entry("sel", sel)>>))>>
                 ELSE <<Entry("sel", sel)>>) \o tail :
        nested \in BOOLEAN, tail \in Tails,
        sel \in { SelectField(cs, many, Items, root, ifs) :
                    cs \in BOOLEAN, many \in BOOLEAN, root \in BOOLEAN,
                    ifs \in IfVariants } }

StringSchemas ==
    { <<Entry("s", StringField(cs, StringConstraints(mn, mx, re)))>> :
        cs \in BOOLEAN, mn \in {0, 3}, mx \in {1, MaxLen},
        re \in {NoRegex} \cup Patterns }

IntMins(ty) == IF ty = "u8" THEN {0, 9, 99} ELSE {I8Min, 0 - 9, 9}
IntMaxs(ty) == IF ty = "u8" THEN {9, 99, U8Max} ELSE {0 - 99, 9, I8Max}

IntSchemasOf(ty) ==
    { <<Entry("n", IntField(ty, cs, IntConstraints(mn, mx)))>> :
        cs \in BOOLEAN, mn \in IntMins(ty), mx \in IntMaxs(ty) }

IntSchemas == IntSchemasOf("u8") \cup IntSchemasOf("i8")

ArraySchemas ==
    { <<Entry("arr", ArrayField("u8", cs, CollectionConstraints(mn, mx),
                                IntConstraints(0, 99)))>> :
        cs \in BOOLEAN, mn \in 0..MaxItems, mx \in 0..MaxItems }
    \cup
    { <<Entry("arr", ArrayField("string", cs, CollectionConstraints(mn, mx),
                                StringConstraints(1, 1, NoRegex)))>> :
        cs \in BOOLEAN, mn \in 0..MaxItems, mx \in 0..MaxItems }

(***************************************************************************)
(* The call stack.                                                         *)
(***************************************************************************)
Top == stack[Len(stack)]
Pop == SubSeq(stack, 1, Len(stack) - 1)
ReplaceTop(f) == [stack EXCEPT ![Len(stack)] = f]

Running(fn) == status = "running" /\ Top.fn = fn

\* the callee has returned into ret
Returned == ret.t # "noret"

\* Field::prompt and the dispatch of TypeConstraints::prompt: the frame of the
\* handler of the field's type
FieldFrame(key, field) ==
    CASE field.type = "select" ->
           [fn |-> "select", key |-> key, can_skip |-> field.can_skip,
            constraints |-> field.constraints, conditions |-> field.conditions,
            pc |-> "ask", indices |-> <<>>, selections |-> <<>>,
            values |-> <<>>,
            selected_value |-> Null]
      [] field.type = "object" ->
           [fn |-> "object", key |-> key, fields |-> field.fields, i |-> 1,
            nested_fields |-> EmptyMap]
      [] field.type = "array" ->
           [fn |-> "array", key |-> key, item |-> field.item,
            can_skip |-> field.can_skip, constraints |-> field.constraints,
            validator |-> field.inner_constraints, i |-> 0, values |-> <<>>,
            pc |-> "loop"]
      [] OTHER ->
           [fn |-> "input", key |-> key, ty |-> field.type,
            can_skip |-> field.can_skip, validator |-> field.constraints,
            site |-> "field"]

\* T::prompt(field_name, Some(validator.clone()), true) of array_prompter
ItemFrame(f) ==
    [fn |-> "input", key |-> f.key, ty |-> f.item, can_skip |-> TRUE,
     validator |-> f.validator, site |-> "item"]

\* one call of Field::prompt: the field's key, the caller, and the map the
\* caller inserts the answer into
Asked(key, by, into) == [key |-> key, by |-> by, into |-> into]

\* no verdict of a validation closure yet
NoAsk == [ok |-> FALSE, parsed |-> FALSE, validated |-> FALSE]

Init ==
    /\ \/ schema \in SelectSchemas
       \/ schema \in StringSchemas
       \/ schema \in IntSchemas
       \/ schema \in ArraySchemas
    /\ stack = <<[fn |-> "schema", i |-> 1]>>
    /\ populated_fields = EmptyMap
    /\ ret = NoRet
    /\ status = "running"
    /\ asked = <<>>
    /\ typed = None
    /\ last_ask = NoAsk
    /\ report = 0

(***************************************************************************)
(* Schema::prompt                                                          *)
(***************************************************************************)
\* SchemaPrompt, had the fields been walked from the last to the first
SchemaPromptReversed ==
    /\ Running("schema") /\ ~Returned
    /\ Top.i <= Len(schema)
    /\ LET e == schema[Len(schema) + 1 - Top.i]
       IN /\ stack' = Append(stack, FieldFrame(e.key, e.field))
          /\ asked' = Append(asked, Asked(e.key, "Schema::prompt", "populated_fields"))
    /\ UNCHANGED <<schema, populated_fields, ret, status, typed, last_ask, report>>

SchemaPrompt ==
    /\ Running("schema") /\ ~Returned
    /\ Top.i <= Len(schema)
    /\ stack' = Append(stack, FieldFrame(schema[Top.i].key, schema[Top.i].field))
    /\ asked' = Append(asked, Asked(schema[Top.i].key, "Schema::prompt", "populated_fields"))
    /\ UNCHANGED <<schema, populated_fields, ret, status, typed, last_ask, report>>

SchemaInsert ==
    /\ Running("schema") /\ Returned
    /\ populated_fields' = MapInsert(populated_fields, schema[Top.i].key, ret)
    /\ stack' = ReplaceTop([Top EXCEPT !.i = @ + 1])
    /\ ret' = NoRet
    /\ UNCHANGED <<schema, status, asked, typed, last_ask, report>>

SchemaReturn ==
    /\ Running("schema") /\ ~Returned
    /\ Top.i > Len(schema)
    /\ stack' = <<>>
    /\ status' = "ok"
    /\ UNCHANGED <<schema, populated_fields, ret, asked, typed, last_ask, report>>

(***************************************************************************)
(* PromptValue::prompt for String and for the numeric types                *)
(***************************************************************************)
\* the validation closure's verdict on one answer
Verdict(f, input) ==
    IF f.ty = "string" THEN StringClosure(f.can_skip, f.validator, input)
    ELSE NumClosure(f.ty, f.can_skip, f.validator, input)

\* the Option<T> made of the accepted answer
Accepted(f, input) ==
    IF f.ty = "string" THEN StringResult(f.can_skip, input)
    ELSE maybe_parse_value(f.ty, f.can_skip, input)

\* the operator types an answer into the Input
InputRead ==
    /\ Running("input") /\ typed.t = "None"
    /\ \E input \in Texts : typed' = Some(input)
    /\ last_ask' = NoAsk
    /\ UNCHANGED <<schema, stack, populated_fields, ret, status, asked, report>>

\* the closure judges the answer: a rejected answer is asked for again, an
\* accepted one is mapped and returned
InputValidate ==
    /\ Running("input") /\ typed.t = "Some"
    /\ LET f == Top
           verdict == Verdict(f, typed.v)
           out == Accepted(f, typed.v)
       IN /\ last_ask' = verdict
          /\ IF ~verdict.ok
             THEN UNCHANGED <<stack, ret, status>>
             ELSE IF out.t = "panic"
             THEN stack' = <<>> /\ status' = "panic" /\ UNCHANGED ret
             ELSE /\ stack' = Pop
                  /\ ret' = IF f.site = "field" THEN ValueFromOption(out) ELSE out
                  /\ UNCHANGED status
    /\ typed' = None
    /\ UNCHANGED <<schema, populated_fields, asked, report>>

(***************************************************************************)
(* TypeConstraints::prompt, Select                                         *)
(***************************************************************************)
\* what MultiSelect::interact_opt hands back: the checked indices, ascending
IndexLists(n) ==
    { CHOOSE l \in [1..Cardinality(S) -> S] :
        \A i, j \in 1..Cardinality(S) : i < j => l[i] < l[j] :
      S \in SUBSET (1..n) }

\* SelectedItems, had the returned indices been walked backwards
SelectedItemsReversed(items, indices) ==
    [j \in 1..Len(indices) |-> items[indices[Len(indices) + 1 - j]]]

\* constraints.items.get(index) of every returned index
SelectedItems(items, indices) == [j \in 1..Len(indices) |-> items[indices[j]]]

\* the selected value of a single select: the item, or Null without a choice
SelectedValue(items, choice) ==
    IF choice.t = "Some" THEN items[choice.v] ELSE Null

\* returned_value.unwrap_or(selected)
SelectResult(returned_value, selected) == UnwrapOr(returned_value, selected)

ConditionsFrame(conditions, selected) ==
    [fn |-> "check_conditions", conditions |-> conditions, selected |-> selected,
     pc |-> "scan", ci |-> 0, fi |-> 1, object |-> EmptyMap]

\* the menu is answered
SelectAsk ==
    /\ Running("select") /\ Top.pc = "ask"
    /\ LET f == Top
           n == Len(f.constraints.items)
       IN IF f.constraints.select_many
          THEN \/ stack' = Pop /\ ret' = Null
               \/ \E indices \in IndexLists(n) :
                    /\ stack' = ReplaceTop(
                         [f EXCEPT !.pc = "loop",
                                   !.indices = indices,
                                   !.selections =
                                      SelectedItems(f.constraints.items, indices)])
                    /\ UNCHANGED ret
          ELSE \E choice \in {Some(i) : i \in 1..n}
                             \cup (IF f.can_skip THEN {None} ELSE {}) :
                 /\ stack' = ReplaceTop(
                      [f EXCEPT !.pc = "check",
                                !.selected_value =
                                   SelectedValue(f.constraints.items, choice)])
                 /\ UNCHANGED ret
    /\ UNCHANGED <<schema, populated_fields, status, asked, typed, last_ask, report>>

\* check_conditions is called for the selected value (the next one, of many)
SelectCheck ==
    /\ Running("select") /\ ~Returned
    /\ \/ /\ Top.pc = "check"
          /\ stack' = Append(ReplaceTop([Top EXCEPT !.pc = "wait"]),
                             ConditionsFrame(Top.conditions, Top.selected_value))
       \/ /\ Top.pc = "loop" /\ Top.selections # <<>>
          /\ stack' = Append(
               ReplaceTop([Top EXCEPT !.selected_value = Head(Top.selections),
                                      !.selections = Tail(Top.selections)]),
               ConditionsFrame(Top.conditions, Head(Top.selections)))
    /\ UNCHANGED <<schema, populated_fields, ret, status, asked, typed, last_ask, report>>

\* check_conditions has returned
SelectResume ==
    /\ Running("select") /\ Returned
    /\ \/ /\ Top.pc = "wait"
          /\ stack' = Pop
          /\ ret' = SelectResult(ret, Top.selected_value)
       \/ /\ Top.pc = "loop"
          /\ stack' = ReplaceTop(
               [Top EXCEPT !.values =
                  Append(@, SelectResult(ret, Top.selected_value))])
          /\ ret' = NoRet
    /\ UNCHANGED <<schema, populated_fields, status, asked, typed, last_ask, report>>

\* every selected value of a multi-select is done
SelectReturn ==
    /\ Running("select") /\ ~Returned
    /\ Top.pc = "loop" /\ Top.selections = <<>>
    /\ stack' = Pop
    /\ ret' = Array(Top.values)
    /\ UNCHANGED <<schema, populated_fields, status, asked, typed, last_ask, report>>

(***************************************************************************)
(* check_conditions                                                        *)
(***************************************************************************)
\* FirstMatch, had the scan kept the last matching condition
LastMatch(if_conditions, selected) ==
    LET matching == {i \in 1..Len(if_conditions) :
                       ValueEq(if_conditions[i].picked, selected)}
    IN IF matching = {} THEN 0
       ELSE CHOOSE i \in matching : \A j \in matching : i >= j

\* the index of the condition that fires, 0 when none does
FirstMatch(if_conditions, selected) ==
    LET matching == {i \in 1..Len(if_conditions) :
                       ValueEq(if_conditions[i].picked, selected)}
    IN IF matching = {} THEN 0
       ELSE CHOOSE i \in matching : \A j \in matching : i <= j

\* the fields of the condition that fired
Dependents(f) == f.conditions.if_conditions[f.ci].fields

\* StoreAtRoot, had insert_at_root been ignored
StoreNeverAtRoot(conditions) == FALSE

\* where a dependent answer goes: the root mapping, or the nested object
StoreAtRoot(conditions) == conditions.insert_at_root

\* ConditionsResult, had the nested object been dropped
ConditionsResultNone(conditions, object) == None

\* the value check_conditions returns once a condition has fired
ConditionsResult(conditions, object) ==
    IF ~conditions.insert_at_root THEN Some(Object(object)) ELSE None

CondScan ==
    /\ Running("check_conditions") /\ Top.pc = "scan"
    /\ LET ci == FirstMatch(Top.conditions.if_conditions, Top.selected)
       IN IF ci = 0
          THEN stack' = Pop /\ ret' = None
          ELSE /\ stack' = ReplaceTop([Top EXCEPT !.pc = "fields", !.ci = ci])
               /\ UNCHANGED ret
    /\ UNCHANGED <<schema, populated_fields, status, asked, typed, last_ask, report>>

CondPrompt ==
    /\ Running("check_conditions") /\ Top.pc = "fields" /\ ~Returned
    /\ Top.fi <= Len(Dependents(Top))
    /\ LET e == Dependents(Top)[Top.fi]
       IN /\ stack' = Append(stack, FieldFrame(e.key, e.field))
          /\ asked' = Append(asked,
               Asked(e.key, "check_conditions",
                     IF StoreAtRoot(Top.conditions)
                     THEN "populated_fields" ELSE "object"))
    /\ UNCHANGED <<schema, populated_fields, ret, status, typed, last_ask, report>>

\* CondInsert, had every dependent answer gone into the nested object
CondInsertNested ==
    /\ Running("check_conditions") /\ Top.pc = "fields" /\ Returned
    /\ stack' = ReplaceTop(
         [Top EXCEPT !.fi = @ + 1,
                     !.object = MapInsert(@, Dependents(Top)[Top.fi].key, ret)])
    /\ ret' = NoRet
    /\ UNCHANGED <<schema, populated_fields, status, asked, typed, last_ask, report>>

CondInsert ==
    /\ Running("check_conditions") /\ Top.pc = "fields" /\ Returned
    /\ LET key == Dependents(Top)[Top.fi].key
       IN IF StoreAtRoot(Top.conditions)
          THEN /\ populated_fields' = MapInsert(populated_fields, key, ret)
               /\ stack' = ReplaceTop([Top EXCEPT !.fi = @ + 1])
          ELSE /\ stack' = ReplaceTop(
                    [Top EXCEPT !.fi = @ + 1,
                                !.object = MapInsert(@, key, ret)])
               /\ UNCHANGED populated_fields
    /\ ret' = NoRet
    /\ UNCHANGED <<schema, status, asked, typed, last_ask, report>>

CondReturn ==
    /\ Running("check_conditions") /\ Top.pc = "fields" /\ ~Returned
    /\ Top.fi > Len(Dependents(Top))
    /\ stack' = Pop
    /\ ret' = ConditionsResult(Top.conditions, Top.object)
    /\ UNCHANGED <<schema, populated_fields, status, asked, typed, last_ask, report>>

(***************************************************************************)
(* TypeConstraints::prompt, Object                                         *)
(***************************************************************************)
ObjectPrompt ==
    /\ Running("object") /\ ~Returned
    /\ Top.i <= Len(Top.fields)
    /\ stack' = Append(stack, FieldFrame(Top.fields[Top.i].key,
                                         Top.fields[Top.i].field))
    /\ asked' = Append(asked, Asked(Top.fields[Top.i].key, "Object", "nested_fields"))
    /\ UNCHANGED <<schema, populated_fields, ret, status, typed, last_ask, report>>

ObjectInsert ==
    /\ Running("object") /\ Returned
    /\ stack' = ReplaceTop(
         [Top EXCEPT !.i = @ + 1,
                     !.nested_fields = MapInsert(@, Top.fields[Top.i].key, ret)])
    /\ ret' = NoRet
    /\ UNCHANGED <<schema, populated_fields, status, asked, typed, last_ask, report>>

ObjectReturn ==
    /\ Running("object") /\ ~Returned
    /\ Top.i > Len(Top.fields)
    /\ stack' = Pop
    /\ ret' = Object(Top.nested_fields)
    /\ UNCHANGED <<schema, populated_fields, status, asked, typed, last_ask, report>>

(***************************************************************************)
(* array_prompter                                                          *)
(***************************************************************************)
\* LoopContinues, had the range been 0..=max_items
LoopContinuesInclusive(i, constraints) == i <= constraints.max_items

\* `for _ in 0..constraints.max_items` has an iteration left after i of them
LoopContinues(i, constraints) == i < constraints.max_items

\* the next iteration of the loop asks for an item
ArrayPrompt ==
    /\ Running("array") /\ Top.pc = "loop" /\ ~Returned
    /\ LoopContinues(Top.i, Top.constraints)
    /\ stack' = Append(ReplaceTop([Top EXCEPT !.i = @ + 1]), ItemFrame(Top))
    /\ UNCHANGED <<schema, populated_fields, ret, status, asked, typed, last_ask, report>>

\* ArrayItem, had exactly min_items items still counted as too few
ArrayItemShortAtMinimum ==
    /\ Running("array") /\ Returned
    /\ IF ret.t = "Some"
       THEN /\ stack' = ReplaceTop([Top EXCEPT !.values = Append(@, ret.v)])
            /\ ret' = NoRet
            /\ UNCHANGED report
       ELSE IF Len(Top.values) <= Top.constraints.min_items
       THEN /\ report' = report + 1
            /\ ret' = NoRet
            /\ stack' = ReplaceTop(
                 [Top EXCEPT !.pc = IF Top.can_skip THEN "confirm" ELSE "loop"])
       ELSE /\ stack' = Pop
            /\ ret' = Array(Top.values)
            /\ UNCHANGED report
    /\ UNCHANGED <<schema, populated_fields, status, asked, typed, last_ask>>

\* ArrayItem, had the skip been offered whatever can_skip is
ArrayItemAlwaysConfirms ==
    /\ Running("array") /\ Returned
    /\ IF ret.t = "Some"
       THEN /\ stack' = ReplaceTop([Top EXCEPT !.values = Append(@, ret.v)])
            /\ ret' = NoRet
            /\ UNCHANGED report
       ELSE IF Len(Top.values) < Top.constraints.min_items
       THEN /\ report' = report + 1
            /\ ret' = NoRet
            /\ stack' = ReplaceTop(
                 [Top EXCEPT !.pc = "confirm"])
       ELSE /\ stack' = Pop
            /\ ret' = Array(Top.values)
            /\ UNCHANGED report
    /\ UNCHANGED <<schema, populated_fields, status, asked, typed, last_ask>>

\* the body of the loop, from the item's answer on
ArrayItem ==
    /\ Running("array") /\ Returned
    /\ IF ret.t = "Some"
       THEN /\ stack' = ReplaceTop([Top EXCEPT !.values = Append(@, ret.v)])
            /\ ret' = NoRet
            /\ UNCHANGED report
       ELSE IF Len(Top.values) < Top.constraints.min_items
       THEN /\ report' = report + 1
            /\ ret' = NoRet
            /\ stack' = ReplaceTop(
                 [Top EXCEPT !.pc = IF Top.can_skip THEN "confirm" ELSE "loop"])
       ELSE /\ stack' = Pop
            /\ ret' = Array(Top.values)
            /\ UNCHANGED report
    /\ UNCHANGED <<schema, populated_fields, status, asked, typed, last_ask>>

\* the answer to "Skip this field?"
ArrayConfirm ==
    /\ Running("array") /\ Top.pc = "confirm"
    /\ \E skip \in BOOLEAN :
         IF skip
         THEN stack' = Pop /\ ret' = Array(Top.values)
         ELSE stack' = ReplaceTop([Top EXCEPT !.pc = "loop"]) /\ UNCHANGED ret
    /\ UNCHANGED <<schema, populated_fields, status, asked, typed, last_ask, report>>

\* the loop has run max_items times
ArrayReturn ==
    /\ Running("array") /\ Top.pc = "loop" /\ ~Returned
    /\ ~LoopContinues(Top.i, Top.constraints)
    /\ stack' = Pop
    /\ ret' = Array(Top.values)
    /\ UNCHANGED <<schema, populated_fields, status, asked, typed, last_ask, report>>

(***************************************************************************)
(* An interaction with the operator fails: the function that asked returns *)
(* the io::Error, and `?` hands it up through every caller.                *)
(***************************************************************************)
AtAsk ==
    /\ status = "running"
    /\ \/ Top.fn = "input" /\ typed.t = "None"
       \/ Top.fn = "select" /\ Top.pc = "ask"
       \/ Top.fn = "array" /\ Top.pc = "confirm"

IoFailure ==
    /\ AtAsk
    /\ stack' = Pop
    /\ status' = "err"
    /\ UNCHANGED <<schema, populated_fields, ret, asked, typed, last_ask, report>>

\* Propagates, had check_conditions kept the failure of a dependent field
PropagatesNotFromConditions(fn) == fn \in {"schema", "object", "select", "array"}

\* the function applies `?` to the call that came back with an Err
Propagates(fn) ==
    fn \in {"schema", "object", "select", "check_conditions", "array"}

\* the caller returns the Err it was handed
Propagate ==
    /\ status = "err" /\ stack # <<>>
    /\ Propagates(Top.fn)
    /\ stack' = Pop
    /\ UNCHANGED <<schema, populated_fields, ret, status, asked, typed, last_ask, report>>

Next ==
    \/ SchemaPrompt \/ SchemaInsert \/ SchemaReturn
    \/ InputRead \/ InputValidate
    \/ SelectAsk \/ SelectCheck \/ SelectResume \/ SelectReturn
    \/ CondScan \/ CondPrompt \/ CondInsert \/ CondReturn
    \/ ObjectPrompt \/ ObjectInsert \/ ObjectReturn
    \/ ArrayPrompt \/ ArrayItem \/ ArrayConfirm \/ ArrayReturn
    \/ IoFailure \/ Propagate

Spec == Init /\ [][Next]_vars

TypeOK ==
    /\ status \in {"running", "ok", "err", "panic"}
    /\ status = "running" => stack # <<>>
    /\ status \in {"ok", "panic"} => stack = <<>>

(***************************************************************************)
(* StringConstraints::validate on its own: a validator of a string schema  *)
(* is handed one answer after the other, and its Result is kept in ret.    *)
(***************************************************************************)
ValidatorInit ==
    /\ schema \in StringSchemas
    /\ stack = <<>>
    /\ populated_fields = EmptyMap
    /\ ret = NoRet
    /\ status = "validate"
    /\ asked = <<>>
    /\ typed = None
    /\ last_ask = NoAsk
    /\ report = 0

ValidateInput ==
    /\ status = "validate" /\ typed.t = "None"
    /\ \E input \in Texts : typed' = Some(input)
    /\ UNCHANGED <<schema, stack, populated_fields, ret, status, asked, last_ask, report>>

ValidateApply ==
    /\ status = "validate" /\ typed.t = "Some" /\ ~Returned
    /\ ret' = StringValidateResult(schema[1].field.constraints, typed.v)
    /\ UNCHANGED <<schema, stack, populated_fields, status, asked, typed, last_ask, report>>

\* the validator is handed the next answer
ValidateAgain ==
    /\ status = "validate" /\ Returned
    /\ typed' = None
    /\ ret' = NoRet
    /\ UNCHANGED <<schema, stack, populated_fields, status, asked, last_ask, report>>

ValidatorNext == ValidateInput \/ ValidateApply \/ ValidateAgain

ValidatorSpec == ValidatorInit /\ [][ValidatorNext]_vars

\* the Result and the verdict the closure uses are the same judgement
ResultAgrees ==
    Returned => (ret.t = "Ok") = StringValidate(schema[1].field.constraints, typed.v)

(***************************************************************************)
(* Properties.                                                             *)
(***************************************************************************)
\* the schemas with the select under study: at the top level, or the only
\* child of the top-level object "o"
IsSelectSchema == schema[1].key \in {"sel", "o"}
SelectNested == schema[1].field.type = "object"
MainSelect ==
    IF SelectNested THEN schema[1].field.fields[1].field ELSE schema[1].field

\* some condition's picked value equals the selected value
Fires(if_conditions, selected) ==
    \E i \in 1..Len(if_conditions) : ValueEq(if_conditions[i].picked, selected)

\* condition c is the first, in declared order, whose picked value equals it
IsFirstFiring(if_conditions, selected, c) ==
    /\ c \in 1..Len(if_conditions)
    /\ ValueEq(if_conditions[c].picked, selected)
    /\ \A j \in 1..(c - 1) : ~ValueEq(if_conditions[j].picked, selected)

FiredFields(if_conditions, selected) ==
    if_conditions[CHOOSE c \in 1..Len(if_conditions) :
                    IsFirstFiring(if_conditions, selected, c)].fields

\* the keys check_conditions was asked to put into the root mapping
RootDependentKeys ==
    { asked[i].key : i \in { j \in 1..Len(asked) :
                               /\ asked[j].by = "check_conditions"
                               /\ asked[j].into = "populated_fields" } }

\* C1 as stated: whenever Schema::prompt returns Ok, the keys of the returned
\* mapping are exactly the schema's top-level field keys.
C1_KeysExactlyTopLevel ==
    status = "ok" => DOMAIN populated_fields = Keys(schema)

\* C1, amended: whenever Schema::prompt returns Ok, the returned mapping holds
\* every top-level field key, and its other keys are exactly the keys of the
\* dependent fields that fired insert_at_root conditions resolved.
C1_KeysTopLevelAndRootDependents ==
    status = "ok" =>
        /\ Keys(schema) \subseteq DOMAIN populated_fields
        /\ (DOMAIN populated_fields) \ Keys(schema)
             = RootDependentKeys \ Keys(schema)

C1_Witness ==
    /\ status = "ok"
    /\ RootDependentKeys # {}
    /\ DOMAIN populated_fields # Keys(schema)

\* C2: a single select whose selected value fires a condition with
\* insert_at_root false returns an Object whose keys are exactly the fired
\* condition's dependent keys, each mapped to the dependent field's answer;
\* the selected item is not its value, and no dependent answer is stored in
\* populated_fields.
C2_Step ==
    /\ ( /\ Running("check_conditions") /\ Top.pc = "fields" /\ Returned
         /\ ~Top.conditions.insert_at_root )
       => /\ Top'.object = MapInsert(Top.object, Dependents(Top)[Top.fi].key, ret)
          /\ populated_fields' = populated_fields
    /\ ( /\ Running("check_conditions") /\ Top.pc = "fields" /\ ~Returned
         /\ ~Top.conditions.insert_at_root
         /\ Top.fi > Len(Dependents(Top)) )
       => /\ DOMAIN Top.object = Keys(Dependents(Top))
          /\ ret' = Some(Object(Top.object))
    /\ ( /\ Running("select") /\ Top.pc = "wait" /\ Returned
         /\ ~Top.conditions.insert_at_root
         /\ Fires(Top.conditions.if_conditions, Top.selected_value) )
       => /\ ret.t = "Some"
          /\ ret' = ret.v
          /\ ret'.t = "object"
          /\ DOMAIN ret'.v = Keys(FiredFields(Top.conditions.if_conditions,
                                              Top.selected_value))
          /\ ~ValueEq(ret', Top.selected_value)

EnclosingLevel ==
    IF SelectNested THEN populated_fields[schema[1].key].v ELSE populated_fields

\* C3 as stated: with insert_at_root true every dependent answer is a sibling
\* key of the select, in the mapping level that encloses the select's key, at
\* any depth.
C3_SiblingAtEnclosingLevel ==
    ( /\ status = "ok" /\ IsSelectSchema
      /\ MainSelect.conditions.insert_at_root )
    => \A i \in 1..Len(asked) :
         asked[i].by = "check_conditions"
         => asked[i].key \in DOMAIN EnclosingLevel

\* every dependent key resolved for the root is a key of the returned mapping
C3_RootKeysPresent ==
    status = "ok" => RootDependentKeys \subseteq DOMAIN populated_fields

\* C3, amended: with insert_at_root true the select's own value is the plain
\* selected item (an element of the Array, for a multi-select) and every
\* dependent answer is inserted into the top-level mapping populated_fields
\* under its key, whatever the depth of the select; its key is in the returned
\* mapping, not in an enclosing nested Object.
C3_Step ==
    /\ ( /\ Running("check_conditions") /\ Top.pc = "fields" /\ Returned
         /\ Top.conditions.insert_at_root )
       => /\ populated_fields'
               = MapInsert(populated_fields, Dependents(Top)[Top.fi].key, ret)
          /\ Top'.object = Top.object
    /\ ( /\ Running("select") /\ Top.pc = "wait" /\ Returned
         /\ Top.conditions.insert_at_root
         /\ Fires(Top.conditions.if_conditions, Top.selected_value) )
       => ret' = Top.selected_value
    /\ ( /\ Running("select") /\ Top.pc = "loop" /\ Returned
         /\ Top.conditions.insert_at_root
         /\ Fires(Top.conditions.if_conditions, Top.selected_value) )
       => Top'.values = Append(Top.values, Top.selected_value)
    /\ C3_RootKeysPresent'

C3_DependentsInsertedAtRoot == [][C3_Step]_vars

C3_Witness ==
    /\ status = "ok"
    /\ IsSelectSchema /\ SelectNested
    /\ ~MainSelect.constraints.select_many
    /\ MainSelect.conditions.insert_at_root
    /\ populated_fields["o"].v["sel"] = ItemA
    /\ "x" \in DOMAIN populated_fields
    /\ "x" \notin DOMAIN populated_fields["o"].v
    /\ "x" \notin Keys(schema)

\* the keys that only conditions shadowed by an earlier condition with an
\* equal picked value have among their dependent fields
ShadowedKeys(if_conditions) ==
    LET shadowed == { j \in 1..Len(if_conditions) :
                        \E i \in 1..(j - 1) :
                          ValueEq(if_conditions[i].picked, if_conditions[j].picked) }
    IN (UNION { Keys(if_conditions[j].fields) : j \in shadowed })
       \ (UNION { Keys(if_conditions[j].fields) :
                    j \in (1..Len(if_conditions)) \ shadowed })

\* C4: the condition whose dependent fields are prompted is the first, in
\* declared order, whose picked value equals the selected value; the dependent
\* fields of a later condition with the same picked value are never prompted.
C4_FirstMatchWins ==
    /\ \A p \in 1..Len(stack) :
         (stack[p].fn = "check_conditions" /\ stack[p].pc = "fields")
         => IsFirstFiring(stack[p].conditions.if_conditions, stack[p].selected,
                          stack[p].ci)
    /\ IsSelectSchema
       => \A i \in 1..Len(asked) :
            asked[i].by = "check_conditions"
            => asked[i].key \notin ShadowedKeys(MainSelect.conditions.if_conditions)

C4_Witness ==
    /\ status = "ok"
    /\ IsSelectSchema
    /\ ShadowedKeys(MainSelect.conditions.if_conditions) # {}
    /\ \E i \in 1..Len(asked) :
         asked[i].by = "check_conditions" /\ asked[i].key = "x"

\* C5 as stated: when the select is skipped or cancelled, so that its value is
\* Null, no condition fires and no dependent field is prompted, whatever the
\* picked values are.
C5_NoConditionOnSkip ==
    \A p \in 1..Len(stack) :
      (stack[p].fn = "check_conditions" /\ ValueEq(stack[p].selected, Null))
      => stack[p].pc = "scan"

\* the array field of an array schema
IsArraySchema == schema[1].field.type = "array"
ArrayConstraints == schema[1].field.constraints

\* every array_prompter on the stack has asked for at most max_items items, and
\* an item prompt is open only while fewer than max_items items are collected
C6_AtMostMaxItems ==
    \A p \in 1..Len(stack) :
      stack[p].fn = "array"
      => /\ stack[p].i <= stack[p].constraints.max_items
         /\ Len(stack[p].values) <= stack[p].i
         /\ p < Len(stack)
            => Len(stack[p].values) < stack[p].constraints.max_items

\* C6: array_prompter asks for at most max_items items whatever the answers
\* are; once max_items items are collected it returns exactly those items
\* without asking for another.
C6_Step ==
    /\ C6_AtMostMaxItems'
    /\ ( /\ Running("array") /\ ~Returned /\ Top.pc = "loop"
         /\ Len(Top.values) = Top.constraints.max_items )
       => /\ stack' = Pop
          /\ ret' = Array(Top.values)

C6_NeverMoreThanMaxItems == [][C6_Step]_vars

C6_Witness ==
    /\ status = "ok"
    /\ IsArraySchema
    /\ ArrayConstraints.max_items >= 2
    /\ Len(populated_fields["arr"].v) = ArrayConstraints.max_items
    /\ populated_fields["arr"].v[1] # populated_fields["arr"].v[2]

\* C7 as stated: an array field that is not skippable resolves to an array of
\* at least min_items and at most max_items items, whenever
\* min_items <= max_items.
C7_MinItemsEnforced ==
    ( /\ status = "ok" /\ IsArraySchema
      /\ ~schema[1].field.can_skip
      /\ ArrayConstraints.min_items <= ArrayConstraints.max_items )
    => /\ Len(populated_fields["arr"].v) >= ArrayConstraints.min_items
       /\ Len(populated_fields["arr"].v) <= ArrayConstraints.max_items

\* C8 as stated: an empty answer given while fewer than min_items items are
\* collected does not end the collection when the field is not skippable or
\* the operator declines to skip: the shortfall is reported and another item is
\* asked for.
C8_Step ==
    /\ ( /\ Running("array") /\ Returned /\ ret.t = "None"
         /\ Len(Top.values) < Top.constraints.min_items
         /\ ~Top.can_skip )
       => /\ report' = report + 1
          /\ Top'.fn = "array" /\ Top'.pc = "loop"
          /\ Top'.i < Top'.constraints.max_items
    /\ ( /\ Running("array") /\ Top.pc = "confirm"
         /\ status' = "running" /\ Len(stack') = Len(stack) )
       => /\ Top'.pc = "loop"
          /\ Top'.i < Top'.constraints.max_items

C8_ShortfallAsksAgain == [][C8_Step]_vars

\* C9: for a string or numeric field with can_skip, the empty answer resolves
\* the field to Null, and the closure neither validates nor parses it, whatever
\* the constraints are.
C9_Step ==
    ( /\ Running("input") /\ Top.site = "field" /\ Top.can_skip
      /\ typed.t = "Some" /\ Len(typed.v) = 0 )
    => /\ stack' = Pop
       /\ ret' = Null
       /\ status' = "running"
       /\ last_ask'.ok
       /\ ~last_ask'.validated
       /\ ~last_ask'.parsed

C9_EmptyAnswerSkipsUnvalidated == [][C9_Step]_vars

C9_Witness ==
    /\ status = "ok"
    /\ schema[1].field.type = "string"
    /\ schema[1].field.can_skip
    /\ schema[1].field.constraints.min_length > schema[1].field.constraints.max_length
    /\ populated_fields["s"] = Null
    /\ last_ask.ok /\ ~last_ask.validated

\* an answer breaks a string field's constraints
Violates(c, s) ==
    \/ Len(s) < c.min_length
    \/ Len(s) > c.max_length
    \/ c.regex # NoRegex /\ ~(RegexCompiles(c.regex) /\ IsMatch(c.regex, s))

\* C10: a string prompt rejects every answer that breaks min_length, max_length
\* or the regex and asks the same field again; it resolves only on an answer
\* that satisfies all three, to that answer, or on an allowed skip; the value a
\* string field ends with is Null or satisfies its constraints.
C10_Step ==
    /\ ( Running("input") /\ Top.ty = "string" /\ typed.t = "Some" )
       => IF Top.can_skip /\ Len(typed.v) = 0
          THEN /\ stack' = Pop
               /\ ret' = IF Top.site = "field" THEN Null ELSE None
          ELSE IF Violates(Top.validator, typed.v)
          THEN /\ stack' = stack /\ ret' = ret /\ status' = status
               /\ typed' = None
               /\ ~last_ask'.ok
          ELSE /\ stack' = Pop
               /\ ret' = IF Top.site = "field" THEN Str(typed.v)
                         ELSE Some(Str(typed.v))
    /\ ( status' = "ok" /\ schema[1].field.type = "string" )
       => \/ populated_fields'["s"] = Null /\ schema[1].field.can_skip
          \/ /\ populated_fields'["s"].t = "string"
             /\ ~Violates(schema[1].field.constraints, populated_fields'["s"].v)

C10_StringNeverBreaksConstraints == [][C10_Step]_vars

C10_Witness ==
    /\ Running("input") /\ Top.ty = "string" /\ Top.site = "field"
    /\ Top.validator.min_length = 3 /\ Top.validator.regex = "^a+$"
    /\ typed.t = "None"
    /\ last_ask.validated /\ ~last_ask.ok

\* C11: a numeric prompt accepts a non-empty answer exactly when it parses as
\* the field's type and min <= value <= max, both bounds included; an accepted
\* answer resolves to the parsed number itself; any other answer is rejected
\* and the same prompt asks again.
C11_Step ==
    ( /\ Running("input") /\ Top.ty # "string"
      /\ typed.t = "Some" /\ Len(typed.v) > 0 )
    => LET value == ParseVal(Top.ty, typed.v)
       IN IF /\ ParseOk(Top.ty, typed.v)
             /\ Top.validator.min <= value
             /\ value <= Top.validator.max
          THEN /\ stack' = Pop
               /\ status' = "running"
               /\ ret' = IF Top.site = "field" THEN Num(value)
                         ELSE Some(Num(value))
          ELSE /\ stack' = stack /\ ret' = ret /\ status' = "running"
               /\ typed' = None
               /\ ~last_ask'.ok

C12_Step ==
    /\ (AtAsk /\ status' # "running") => status' = "err"
    /\ status = "err"
       => /\ status' = "err"
          /\ stack' = Pop
          /\ asked' = asked
          /\ typed' = typed
          /\ populated_fields' = populated_fields

C12_FailureAbortsTraversal ==
    /\ [](status = "err" /\ stack # <<>> => ENABLED Propagate)
    /\ [][C12_Step]_vars

C12_Witness ==
    /\ status = "err" /\ stack = <<>>
    /\ Len(asked) = 3
    /\ asked[2].by = "Object"
    /\ asked[3].by = "check_conditions"
    /\ asked[3].key \notin DOMAIN populated_fields

\* C13 as stated: the message that rejects an answer shorter than min_length
\* quotes the answer and names min_length, and the message that rejects an
\* answer longer than max_length quotes the answer and names max_length.
C13_MessageNamesViolatedBound ==
    (Returned /\ ret.t = "Err")
    => LET c == schema[1].field.constraints
           input == typed.v
           msg == ret.v
       IN /\ Len(input) < c.min_length
             => /\ msg.value = Some(input)
                /\ msg.number = Some(c.min_length)
          /\ (Len(input) >= c.min_length /\ Len(input) > c.max_length)
             => /\ msg.value = Some(input)
                /\ msg.number = Some(c.max_length)

\* the keys of the Field::prompt calls one kind of caller has made, in order
AskedKeys(by) ==
    LET calls == SelectSeq(asked, LAMBDA a : a.by = by)
    IN [j \in 1..Len(calls) |-> calls[j].key]

\* C14: a field is prompted only by the innermost running call, on top of
\* which its own call is put, so one field is being resolved at a time; at
\* every level (schema, Object, fired condition) the field prompted is the next
\* in declared order, and every field declared before it at that level has
\* been resolved and its answer stored.
C14_Step ==
    asked' # asked
    => LET a == asked'[Len(asked')]
       IN /\ asked' = Append(asked, a)
          /\ ~Returned
          /\ stack' = Append(stack, Top')
          /\ Top'.key = a.key
          /\ CASE a.by = "Schema::prompt" ->
                    /\ Len(stack) = 1 /\ Top.fn = "schema"
                    /\ a.key = schema[Top.i].key
                    /\ AskedKeys("Schema::prompt")
                         = [j \in 1..(Top.i - 1) |-> schema[j].key]
                    /\ \A j \in 1..(Top.i - 1) :
                         schema[j].key \in DOMAIN populated_fields
               [] a.by = "Object" ->
                    /\ Top.fn = "object"
                    /\ a.key = Top.fields[Top.i].key
                    /\ \A j \in 1..(Top.i - 1) :
                         Top.fields[j].key \in DOMAIN Top.nested_fields
               [] a.by = "check_conditions" ->
                    /\ Top.fn = "check_conditions"
                    /\ a.key = Dependents(Top)[Top.fi].key
                    /\ \A j \in 1..(Top.fi - 1) :
                         Dependents(Top)[j].key \in
                           DOMAIN (IF Top.conditions.insert_at_root
                                   THEN populated_fields ELSE Top.object)

C14_OneFieldAtATimeInOrder == [][C14_Step]_vars

C14_Witness ==
    /\ status = "ok"
    /\ Len(schema) = 2
    /\ schema[1].field.type = "object"
    /\ Len(asked) = 6
    /\ AskedKeys("Schema::prompt") = <<"o", "x">>
    /\ AskedKeys("check_conditions") = <<"x", "y", "x">>

\* the element a multi-select returns for one selected item: the nested Object
\* of the fired condition's dependent keys in nested mode, else the item
IsElementFor(conditions, item, element) ==
    IF Fires(conditions.if_conditions, item) /\ ~conditions.insert_at_root
    THEN /\ element.t = "object"
         /\ DOMAIN element.v = Keys(FiredFields(conditions.if_conditions, item))
    ELSE element = item

\* C15: a multi-select that is not cancelled calls check_conditions once for
\* every selected value, in the order of the returned indices, and returns an
\* Array with one element per selected value, in that order: the nested Object
\* when a condition fires in nested mode, else the selected item; an empty
\* selection returns the empty Array.
C15_Step ==
    /\ ( Running("select") /\ Top.constraints.select_many /\ Top.pc = "loop" )
       => LET f == Top
              n == Len(f.indices)
              done == Len(f.values)
              item(j) == f.constraints.items[f.indices[j]]
          IN /\ done + Len(f.selections) + (IF Returned THEN 1 ELSE 0) = n
             /\ \A j \in 1..done :
                  IsElementFor(f.conditions, item(j), f.values[j])
             /\ IF Returned
                THEN /\ Top'.values = Append(f.values, Top'.values[done + 1])
                     /\ IsElementFor(f.conditions, item(done + 1),
                                     Top'.values[done + 1])
                ELSE IF done < n
                THEN /\ Len(stack') = Len(stack) + 1
                     /\ Top' = ConditionsFrame(f.conditions, item(done + 1))
                     /\ stack'[Len(stack)].values = f.values
                ELSE /\ stack' = Pop
                     /\ ret' = Array(f.values)
                     /\ Len(ret'.v) = n
    /\ ( /\ Running("select") /\ Top.constraints.select_many /\ Top.pc = "ask"
         /\ status' = "running" /\ Len(stack') = Len(stack) )
       => Top'.pc = "loop" /\ Top'.values = <<>>

C15_MultiSelectElementPerValue == [][C15_Step]_vars

C15_Witness ==
    /\ status = "ok"
    /\ IsSelectSchema /\ ~SelectNested
    /\ MainSelect.constraints.select_many
    /\ ~MainSelect.conditions.insert_at_root
    /\ populated_fields["sel"].t = "array"
    /\ Len(populated_fields["sel"].v) = 2
    /\ populated_fields["sel"].v[1].t = "object"
    /\ populated_fields["sel"].v[2] = Item9

C15_WitnessEmpty ==
    /\ status = "ok"
    /\ IsSelectSchema /\ MainSelect.constraints.select_many
    /\ ~SelectNested
    /\ populated_fields["sel"] = Array(<<>>)

\* C16: an empty answer to an item prompt, given when at least min_items items
\* are collected, ends the collection at once: nothing is reported, no skip is
\* offered, no item is asked for, and the array returned is the items entered
\* so far, in the order they were entered.
C16_Step ==
    ( /\ Running("array") /\ Returned /\ ret.t = "None"
      /\ Len(Top.values) >= Top.constraints.min_items )
    => /\ stack' = Pop
       /\ status' = "running"
       /\ ret' = Array(Top.values)
       /\ report' = report

C16_EmptyAnswerAtMinimumStops == [][C16_Step]_vars

C16_Witness ==
    /\ status = "ok"
    /\ IsArraySchema
    /\ ArrayConstraints.min_items = 1
    /\ ArrayConstraints.max_items = 2
    /\ Len(populated_fields["arr"].v) = 1
    /\ report = 0

\* C17: "Skip this field?" is asked only after an empty answer that arrived
\* with fewer than min_items items collected, and only for a field with
\* can_skip; when the operator confirms, the collection returns at once the
\* items collected so far, however few.
C17_Step ==
    /\ ( /\ status' = "running" /\ Top'.fn = "array" /\ Top'.pc = "confirm" )
       => /\ Running("array") /\ Returned /\ ret.t = "None"
          /\ Top.can_skip
          /\ Len(Top.values) < Top.constraints.min_items
          /\ Top'.values = Top.values
    /\ ( /\ Running("array") /\ Top.pc = "confirm"
         /\ status' = "running" /\ Len(stack') < Len(stack) )
       => /\ stack' = Pop
          /\ ret' = Array(Top.values)
          /\ Len(Top.values) < Top.constraints.min_items

C17_SkipOfferedOnlyIfCanSkip == [][C17_Step]_vars

C17_Witness ==
    /\ status = "ok"
    /\ IsArraySchema
    /\ schema[1].field.can_skip
    /\ ArrayConstraints.min_items = 2
    /\ ArrayConstraints.max_items = 2
    /\ populated_fields["arr"] = Array(<<>>)
    /\ report = 1

\* C18 as stated: whatever the constraints of a string or numeric field that
\* is not skippable, some answer is accepted by its prompt, so that a rejected
\* answer can always be followed by an accepted one.
C18_SomeAnswerAccepted ==
    ( /\ Running("input") /\ Top.site = "field" /\ ~Top.can_skip )
    => \E input \in Texts : Verdict(Top, input).ok

\* C19: for a string or numeric field without can_skip the empty answer is
\* validated like any other answer and never resolves the field to Null: a
\* string field resolves to the String "" exactly when "" satisfies
\* min_length, max_length and the regex, and is asked again otherwise; a
\* numeric field always rejects it and asks again.
C19_Step ==
    /\ ( /\ Running("input") /\ Top.site = "field" /\ ~Top.can_skip
         /\ typed.t = "Some" /\ Len(typed.v) = 0 )
       => IF Top.ty = "string" /\ ~Violates(Top.validator, typed.v)
          THEN /\ last_ask'.validated
               /\ stack' = Pop
               /\ ret' = Str(typed.v)
          ELSE /\ Top.ty = "string" => last_ask'.validated
               /\ Top.ty # "string" => last_ask'.parsed
               /\ ~last_ask'.ok
               /\ stack' = stack /\ ret' = ret /\ status' = "running"
    /\ ( /\ Running("input") /\ Top.site = "field" /\ ~Top.can_skip
         /\ Len(stack') < Len(stack) /\ status' = "running" )
       => ret' # Null

C19_EmptyAnswerNotASkip == [][C19_Step]_vars

C19_Witness ==
    /\ status = "ok"
    /\ schema[1].field.type = "string"
    /\ ~schema[1].field.can_skip
    /\ schema[1].field.constraints.regex = ""
    /\ populated_fields["s"] = Str(<<>>)

\* C20 as stated: no answer stored in the result mapping is overwritten: a key
\* once inserted, by Schema::prompt or by a fired insert_at_root condition,
\* keeps the value it was inserted with until the traversal returns, also when
\* a dependent key equals a top-level key or another dependent key.
C20_Step ==
    \A k \in DOMAIN populated_fields :
      /\ k \in DOMAIN populated_fields'
      /\ populated_fields'[k] = populated_fields[k]

C20_NoAnswerOverwritten == [][C20_Step]_vars

\* C21: the unwrap of maybe_parse_value never panics: a text the numeric
\* closure has accepted is either the empty text of a call with can_skip,
\* which yields None without being parsed, or a text that parses as the
\* field's type, whatever can_skip and the constraints are.
C21_Step ==
    ( /\ Running("input") /\ Top.ty # "string"
      /\ typed.t = "Some"
      /\ Verdict(Top, typed.v).ok )
    => /\ maybe_parse_value(Top.ty, Top.can_skip, typed.v) # Panic
       /\ IF Top.can_skip /\ Len(typed.v) = 0
          THEN maybe_parse_value(Top.ty, Top.can_skip, typed.v) = None
          ELSE /\ ParseOk(Top.ty, typed.v)
               /\ maybe_parse_value(Top.ty, Top.can_skip, typed.v)
                    = Some(Num(ParseVal(Top.ty, typed.v)))
       /\ status' = "running"

C21_UnwrapNeverPanics ==
    /\ [](status # "panic")
    /\ [][C21_Step]_vars

C21_Witness ==
    /\ status = "ok"
    /\ schema[1].key = "n"
    /\ schema[1].field.type = "i8"
    /\ ~schema[1].field.can_skip
    /\ populated_fields["n"].t = "number"
    /\ populated_fields["n"].v < 0
    /\ last_ask.ok /\ last_ask.parsed
====
